---- MODULE Spec2Model ----
(***************************************************************************)
(* Model of CLibMoonlight/LogHelpers.c: the C shim that formats a variadic *)
(* log message into a stack buffer and forwards it to swiftLogHandler, and *)
(* that hands out the address of that callback.                            *)
(*                                                                         *)
(* Bytes are one-character strings; NUL is the terminator '\0'.            *)
(***************************************************************************)
EXTENDS Integers, Sequences, FiniteSets, TLC

\* sizeof(buffer): char buffer[2048]
BUFFER_SIZE == 2048

\* Length of the over-long %s argument used to force truncation.
LongLen == 3000

\* The threads that may call into the shim concurrently.
Threads == {"t1", "t2"}

NUL == "NUL"
\* A byte of indeterminate stack memory that is not '\0'.
JUNK == "?"
\* A wide character that has no multibyte encoding in the current locale.
BADWC == "BADWC"

Min(a, b) == IF a < b THEN a ELSE b

Repeat(c, n) == [i \in 1..n |-> c]

----------------------------------------------------------------------------
\* Arguments of the variadic pack.
IntArg(v) == [type |-> "int", val |-> v]
StrArg(s) == [type |-> "str", val |-> s]
WStrArg(s) == [type |-> "wstr", val |-> s]

\* The (format, args) pairs the callers pass; types match the specifiers.
Inputs ==
  { [format |-> <<"v", "=", "%", "d">>, args |-> <<IntArg(42)>>],
    [format |-> <<"%", "s", "-", "%", "s", "%", "%">>,
     args |-> <<StrArg(<<"a">>), StrArg(<<"b">>)>>],
    [format |-> <<>>, args |-> <<>>],
    [format |-> <<"%", "s">>, args |-> <<StrArg(Repeat("x", LongLen))>>],
    [format |-> <<"%", "s">>, args |-> <<StrArg(Repeat("x", BUFFER_SIZE - 1))>>],
    [format |-> <<"%", "s", "%", "d">>,
     args |-> <<StrArg(Repeat("x", BUFFER_SIZE - 2)), IntArg(-42)>>],
    [format |-> <<"w", "%", "l", "s">>,
     args |-> <<WStrArg(<<"y", BADWC, "z">>)>>] }

NoInput == [format |-> <<>>, args |-> <<"none">>]

----------------------------------------------------------------------------
\* Standard formatting, as vsnprintf performs it.

Digit(d) == <<"0", "1", "2", "3", "4", "5", "6", "7", "8", "9">>[d + 1]

RECURSIVE NatToStr(_)
NatToStr(n) == IF n < 10 THEN <<Digit(n)>>
               ELSE NatToStr(n \div 10) \o <<Digit(n % 10)>>

\* %d
IntToStr(v) == IF v < 0 THEN <<"-">> \o NatToStr(-v) ELSE NatToStr(v)

\* Index of the first unconvertible wide character, 0 when there is none.
FirstBad(ws) ==
  IF \E i \in 1..Len(ws) : ws[i] = BADWC
    THEN CHOOSE i \in 1..Len(ws) : ws[i] = BADWC /\ \A j \in 1..(i - 1) : ws[j] # BADWC
    ELSE 0

\* The complete rendering of fmt[i..] with args[k..]: [out, ok]. ok = FALSE is
\* an encoding error; out is then what was produced before the error.
RECURSIVE RenderFrom(_, _, _, _)
RenderFrom(fmt, i, args, k) ==
  IF i > Len(fmt) THEN [out |-> <<>>, ok |-> TRUE]
  ELSE IF fmt[i] # "%" THEN
    LET r == RenderFrom(fmt, i + 1, args, k)
    IN  [out |-> <<fmt[i]>> \o r.out, ok |-> r.ok]
  ELSE IF fmt[i + 1] = "%" THEN
    LET r == RenderFrom(fmt, i + 2, args, k)
    IN  [out |-> <<"%">> \o r.out, ok |-> r.ok]
  ELSE IF fmt[i + 1] = "d" THEN
    LET r == RenderFrom(fmt, i + 2, args, k + 1)
    IN  [out |-> IntToStr(args[k].val) \o r.out, ok |-> r.ok]
  ELSE IF fmt[i + 1] = "s" THEN
    LET r == RenderFrom(fmt, i + 2, args, k + 1)
    IN  [out |-> args[k].val \o r.out, ok |-> r.ok]
  ELSE \* %ls
    LET ws == args[k].val
        b == FirstBad(ws)
    IN  IF b = 0
          THEN LET r == RenderFrom(fmt, i + 3, args, k + 1)
               IN  [out |-> ws \o r.out, ok |-> r.ok]
          ELSE [out |-> SubSeq(ws, 1, b - 1), ok |-> FALSE]

Render(in) == RenderFrom(in.format, 1, in.args, 1)

\* buf with text stored from position 1 (at most size - 1 bytes of it), then,
\* if terminate, a NUL; the bytes after that keep their old value.
Store(buf, size, text, terminate) ==
  LET n == Min(Len(text), size - 1)
  IN  [i \in 1..size |-> IF i <= n THEN text[i]
                          ELSE IF i = n + 1 /\ terminate THEN NUL
                          ELSE buf[i]]

\* vsnprintf(buf, size, format, args): the set of outcomes [buf, ret]. A
\* rendering that succeeds writes min(n, size-1) bytes and the terminator and
\* returns n. One that fails returns a negative value and leaves the buffer
\* in no specified state: untouched, or holding the partial output with or
\* without a terminator.
vsnprintf(buf, size, in) ==
  LET r == Render(in)
  IN  IF r.ok
        THEN {[buf |-> Store(buf, size, r.out, TRUE), ret |-> Len(r.out)]}
        ELSE {[buf |-> b, ret |-> -1] :
                b \in {buf, Store(buf, size, r.out, TRUE),
                       Store(buf, size, r.out, FALSE)}}

\* What a reader of the C string at buf gets: the bytes before the first NUL.
\* Without a NUL in the array the read runs off its end.
CStr(buf) ==
  IF \E i \in 1..Len(buf) : buf[i] = NUL
    THEN LET e == CHOOSE i \in 1..Len(buf) :
                    buf[i] = NUL /\ \A j \in 1..(i - 1) : buf[j] # NUL
         IN  [text |-> SubSeq(buf, 1, e - 1), terminated |-> TRUE]
    ELSE [text |-> buf, terminated |-> FALSE]

NoText == [text |-> <<>>, terminated |-> FALSE]

\* The contents an uninitialised char buffer[2048] may have on entry.
Indeterminate ==
  { Repeat(JUNK, BUFFER_SIZE),
    [i \in 1..BUFFER_SIZE |-> IF i = 4 THEN NUL ELSE JUNK] }

\* The frame of logMessageCallback is gone: there is no buffer.
NoBuffer == <<>>

\* (void*)logMessageCallback
ADDR_logMessageCallback == "&logMessageCallback"
ADDR_swiftLogHandler == "&swiftLogHandler"
NULL == "NULL"

----------------------------------------------------------------------------
VARIABLES
  pc,        \* per thread: where it is in logMessageCallback
  input,     \* per thread: the (format, args) of its current call
  buffer,    \* per frame: char buffer[2048]
  fmtResult, \* per thread: the value vsnprintf returned (the code drops it)
  handler,   \* per thread: the swiftLogHandler invocation of its current call
  invoked,   \* per thread: calls of swiftLogHandler made by its current call
  received,  \* per thread: the text swiftLogHandler read from its argument
  retval,    \* per thread: what the caller got back from its last call
  pointers   \* every value getLogMessageCallbackPointer has returned

vars == <<pc, input, buffer, fmtResult, handler, invoked, received, retval, pointers>>

\* The frame, and so the buffer, that the call of thread t uses: buffer is a
\* local of automatic storage, so each call has its own.
FrameOfShared(t) == CHOOSE u \in Threads : TRUE
FrameOf(t) == t

\* sizeof(buffer), the bound handed to vsnprintf.
BufferCapacityMinusOne == BUFFER_SIZE - 1
BufferCapacity == BUFFER_SIZE

\* The value getLogMessageCallbackPointer returns.
PointerValueHandler == ADDR_swiftLogHandler
PointerValue == ADDR_logMessageCallback

Init ==
  /\ pc = [t \in Threads |-> "idle"]
  /\ input = [t \in Threads |-> NoInput]
  /\ buffer = [t \in Threads |-> NoBuffer]
  /\ fmtResult = [t \in Threads |-> 0]
  /\ handler = [t \in Threads |-> "notcalled"]
  /\ invoked = [t \in Threads |-> 0]
  /\ received = [t \in Threads |-> NoText]
  /\ retval = [t \in Threads |-> "none"]
  /\ pointers = {}

\* Lines 9-12: entry; buffer is allocated and not initialised; va_start.
logMessageCallback(t, in) ==
  /\ pc[t] = "idle"
  /\ pc' = [pc EXCEPT ![t] = "L13"]
  /\ input' = [input EXCEPT ![t] = in]
  /\ \E g \in Indeterminate : buffer' = [buffer EXCEPT ![FrameOf(t)] = g]
  /\ fmtResult' = [fmtResult EXCEPT ![t] = 0]
  /\ handler' = [handler EXCEPT ![t] = "notcalled"]
  /\ invoked' = [invoked EXCEPT ![t] = 0]
  /\ received' = [received EXCEPT ![t] = NoText]
  /\ retval' = [retval EXCEPT ![t] = "none"]
  /\ UNCHANGED pointers

\* A variant that forwards the format itself, without expanding it.
FormatLiteral(t) ==
  /\ pc[t] = "L13"
  /\ \E o \in vsnprintf(buffer[FrameOf(t)], BufferCapacity,
                         [format |-> <<"%", "s">>,
                          args |-> <<StrArg(input[t].format)>>]) :
       /\ buffer' = [buffer EXCEPT ![FrameOf(t)] = o.buf]
       /\ fmtResult' = [fmtResult EXCEPT ![t] = o.ret]
  /\ pc' = [pc EXCEPT ![t] = "L16"]
  /\ UNCHANGED <<input, handler, invoked, received, retval, pointers>>

\* Lines 13-14: vsnprintf(buffer, sizeof(buffer), format, args); va_end.
\* The value vsnprintf returns is not looked at.
Format(t) ==
  /\ pc[t] = "L13"
  /\ \E o \in vsnprintf(buffer[FrameOf(t)], BufferCapacity, input[t]) :
       /\ buffer' = [buffer EXCEPT ![FrameOf(t)] = o.buf]
       /\ fmtResult' = [fmtResult EXCEPT ![t] = o.ret]
  /\ pc' = [pc EXCEPT ![t] = "L16"]
  /\ UNCHANGED <<input, handler, invoked, received, retval, pointers>>

\* A variant that calls the handler only when vsnprintf reported success.
CallHandlerIfOk(t) ==
  /\ pc[t] = "L16"
  /\ IF fmtResult[t] >= 0
       THEN /\ pc' = [pc EXCEPT ![t] = "inHandler"]
            /\ handler' = [handler EXCEPT ![t] = "running"]
            /\ invoked' = [invoked EXCEPT ![t] = @ + 1]
            /\ received' = [received EXCEPT ![t] = CStr(buffer[FrameOf(t)])]
       ELSE /\ pc' = [pc EXCEPT ![t] = "L17"]
            /\ UNCHANGED <<handler, invoked, received>>
  /\ UNCHANGED <<input, buffer, fmtResult, retval, pointers>>

\* A variant that reports truncation and failure to the caller instead.
CallHandlerChecked(t) ==
  /\ pc[t] = "L16"
  /\ IF fmtResult[t] >= 0 /\ fmtResult[t] < BUFFER_SIZE
       THEN /\ pc' = [pc EXCEPT ![t] = "inHandler"]
            /\ handler' = [handler EXCEPT ![t] = "running"]
            /\ invoked' = [invoked EXCEPT ![t] = @ + 1]
            /\ received' = [received EXCEPT ![t] = CStr(buffer[FrameOf(t)])]
            /\ UNCHANGED <<buffer, retval>>
       ELSE /\ pc' = [pc EXCEPT ![t] = "idle"]
            /\ buffer' = [buffer EXCEPT ![FrameOf(t)] = NoBuffer]
            /\ retval' = [retval EXCEPT ![t] = "error"]
            /\ UNCHANGED <<handler, invoked, received>>
  /\ UNCHANGED <<input, fmtResult, pointers>>

\* A variant that hands the text to the handler without waiting for it.
CallHandlerAsync(t) ==
  /\ pc[t] = "L16"
  /\ pc' = [pc EXCEPT ![t] = "L17"]
  /\ handler' = [handler EXCEPT ![t] = "running"]
  /\ invoked' = [invoked EXCEPT ![t] = @ + 1]
  /\ received' = [received EXCEPT ![t] = CStr(buffer[FrameOf(t)])]
  /\ UNCHANGED <<input, buffer, fmtResult, retval, pointers>>

\* Line 16: swiftLogHandler(buffer) is entered and reads its argument; the
\* caller waits in the call.
CallHandler(t) ==
  /\ pc[t] = "L16"
  /\ pc' = [pc EXCEPT ![t] = "inHandler"]
  /\ handler' = [handler EXCEPT ![t] = "running"]
  /\ invoked' = [invoked EXCEPT ![t] = @ + 1]
  /\ received' = [received EXCEPT ![t] = CStr(buffer[FrameOf(t)])]
  /\ UNCHANGED <<input, buffer, fmtResult, retval, pointers>>

\* swiftLogHandler returns; a caller waiting at line 16 goes on.
HandlerReturn(t) ==
  /\ handler[t] = "running"
  /\ handler' = [handler EXCEPT ![t] = "returned"]
  /\ pc' = [pc EXCEPT ![t] = IF @ = "inHandler" THEN "L17" ELSE @]
  /\ UNCHANGED <<input, buffer, fmtResult, invoked, received, retval, pointers>>

\* Line 17: logMessageCallback returns void; its frame is released.
Return(t) ==
  /\ pc[t] = "L17"
  /\ pc' = [pc EXCEPT ![t] = "idle"]
  /\ buffer' = [buffer EXCEPT ![FrameOf(t)] = NoBuffer]
  /\ retval' = [retval EXCEPT ![t] = "void"]
  /\ UNCHANGED <<input, fmtResult, handler, invoked, received, pointers>>

\* Lines 20-22: return (void*)logMessageCallback.
getLogMessageCallbackPointer(t) ==
  /\ pc[t] = "idle"
  /\ pointers' = pointers \cup {PointerValue}
  /\ UNCHANGED <<pc, input, buffer, fmtResult, handler, invoked, received, retval>>

Next ==
  \E t \in Threads :
    \/ \E in \in Inputs : logMessageCallback(t, in)
    \/ Format(t)
    \/ CallHandler(t)
    \/ HandlerReturn(t)
    \/ Return(t)
    \/ getLogMessageCallbackPointer(t)

Spec == Init /\ [][Next]_vars

\* The calls of the fair specification: one that renders and one whose
\* formatting fails.
FairInputs ==
  {in \in Inputs : in.format \in {<<"v", "=", "%", "d">>, <<"w", "%", "l", "s">>}}

FairNext ==
  \E t \in Threads :
    \/ \E in \in FairInputs : logMessageCallback(t, in)
    \/ Format(t)
    \/ CallHandler(t)
    \/ HandlerReturn(t)
    \/ Return(t)
    \/ getLogMessageCallbackPointer(t)

\* A thread that is inside logMessageCallback and not waiting for the handler
\* keeps executing: it enters the handler at line 16 and returns at line 17.
\* Nothing makes swiftLogHandler return, and nothing makes a caller call.
FairSpec ==
  /\ Init /\ [][FairNext]_vars
  /\ \A t \in Threads : WF_vars(CallHandler(t)) /\ WF_vars(Return(t))

----------------------------------------------------------------------------
\* Vocabulary of the properties.

\* The call of t has handed its text to swiftLogHandler.
Delivered(t) == handler[t] # "notcalled"

\* The complete standard-formatting rendering of the call's (format, args).
Full(t) == Render(input[t]).out
Renders(t) == Render(input[t]).ok

\* The call of t has returned to its caller.
Completed(t) == pc[t] = "idle" /\ retval[t] # "none"

\* C1: every call of logMessageCallback invokes swiftLogHandler exactly once
\* before it returns: no invocation before line 16, exactly one from then on,
\* whatever vsnprintf returned (empty, truncated or failed rendering).
C1_HandlerExactlyOnce ==
  \A t \in Threads :
    /\ invoked[t] <= 1
    /\ pc[t] \in {"L13", "L16"} => invoked[t] = 0
    /\ pc[t] \in {"inHandler", "L17"} => invoked[t] = 1
    /\ Completed(t) => invoked[t] = 1

\* A call whose vsnprintf failed has returned, and one whose rendering was
\* empty has returned, each after one invocation of the handler.
C1_Witness ==
  /\ \E t \in Threads : Completed(t) /\ fmtResult[t] < 0 /\ invoked[t] = 1
  /\ \E t \in Threads : Completed(t) /\ fmtResult[t] = 0 /\ invoked[t] = 1

\* C2: when the full rendering is 2048 bytes or longer, the text the handler
\* receives is exactly its first 2047 bytes, terminated inside the buffer, and
\* the call goes on to return normally.
C2_TruncatedPrefix ==
  \A t \in Threads :
    (Delivered(t) /\ Renders(t) /\ Len(Full(t)) >= BUFFER_SIZE) =>
      /\ received[t].terminated
      /\ received[t].text = SubSeq(Full(t), 1, BUFFER_SIZE - 1)
      /\ Len(received[t].text) = BUFFER_SIZE - 1
      /\ Completed(t) => retval[t] = "void"

\* A call whose rendering is cut inside the %d conversion has returned.
C2_Witness ==
  \E t \in Threads :
    /\ Completed(t) /\ Renders(t)
    /\ Len(Full(t)) = BUFFER_SIZE + 1
    /\ received[t].text[BUFFER_SIZE - 1] = "-"

\* C3: when the rendering is shorter than 2048 bytes (0 and 2047 included)
\* the text the handler receives is the complete rendering, nothing dropped or
\* appended.
C3_CompleteRendering ==
  \A t \in Threads :
    (Delivered(t) /\ Renders(t) /\ Len(Full(t)) < BUFFER_SIZE) =>
      /\ received[t].terminated
      /\ received[t].text = Full(t)

\* One handler holds the 2047-byte rendering and the other "v=42".
C3_Witness ==
  /\ \E t \in Threads :
       Delivered(t) /\ Renders(t) /\ Len(received[t].text) = BUFFER_SIZE - 1
         /\ Len(Full(t)) = BUFFER_SIZE - 1
  /\ \E t \in Threads :
       Delivered(t) /\ received[t].text = <<"v", "=", "4", "2">>

\* C4: the call is strictly sequential. While the handler runs, the caller is
\* inside the call at line 16 and the buffer holds what a completed vsnprintf
\* of this call left there, which is what the handler read; the call is past
\* line 16 or back at its caller only once the handler has returned.
C4_StrictlySequential ==
  \A t \in Threads :
    /\ pc[t] \in {"L13", "L16"} => handler[t] = "notcalled"
    /\ handler[t] = "running" =>
         /\ pc[t] = "inHandler"
         /\ \E g \in Indeterminate :
              \E o \in vsnprintf(g, BUFFER_SIZE, input[t]) :
                /\ buffer[FrameOf(t)] = o.buf
                /\ fmtResult[t] = o.ret
         /\ received[t] = CStr(buffer[FrameOf(t)])
    /\ (pc[t] = "L17" \/ Completed(t)) => handler[t] = "returned"

\* Both handlers are running, one of them on a truncated rendering.
C4_Witness ==
  /\ \A t \in Threads : handler[t] = "running"
  /\ \E t \in Threads : fmtResult[t] >= BUFFER_SIZE

\* C5: getLogMessageCallbackPointer returns one and the same value on every
\* call, whatever was called before or in between; the value is not null and
\* is the address of logMessageCallback.
C5_StablePointer ==
  /\ Cardinality(pointers) <= 1
  /\ NULL \notin pointers
  /\ pointers \subseteq {ADDR_logMessageCallback}

\* The pointer has been fetched, with one call completed and one in flight.
C5_Witness ==
  /\ pointers # {}
  /\ \E t \in Threads : Completed(t)
  /\ \E t \in Threads : pc[t] = "inHandler"

\* C6: concurrent calls use private buffers. The text a handler invocation
\* receives comes from its own call alone: the truncated rendering of its own
\* (format, args) when vsnprintf succeeded, and otherwise a state its own
\* vsnprintf could leave in its own buffer. No lock: a call at line 16 can
\* always enter the handler, wherever the other calls and handlers are.
C6_PrivateBuffers ==
  \A t \in Threads :
    /\ Delivered(t) =>
         IF Renders(t)
           THEN received[t].text =
                  SubSeq(Full(t), 1, Min(Len(Full(t)), BUFFER_SIZE - 1))
           ELSE \E g \in Indeterminate :
                  \E o \in vsnprintf(g, BUFFER_SIZE, input[t]) :
                    received[t] = CStr(o.buf)
    /\ pc[t] = "L16" => ENABLED CallHandler(t)

\* Two handler invocations run at once, each with its own, different text.
C6_Witness ==
  /\ \A t \in Threads : handler[t] = "running" /\ Renders(t)
  /\ \E t, u \in Threads : received[t].text # received[u].text

\* C7: there is no error outcome. Whatever vsnprintf returned, the call goes on
\* to the handler and on to its return, the caller gets void back, and a call
\* that has returned has delivered its text.
C7_NoErrorOutcome ==
  \A t \in Threads :
    /\ pc[t] \in {"idle", "L13", "L16", "inHandler", "L17"}
    /\ retval[t] \in {"none", "void"}
    /\ pc[t] = "L16" => ENABLED CallHandler(t)
    /\ pc[t] = "L17" => ENABLED Return(t)
    /\ Completed(t) => handler[t] = "returned" /\ retval[t] = "void"

\* A truncated call and a call whose vsnprintf failed have both returned void.
C7_Witness ==
  /\ \E t \in Threads :
       Completed(t) /\ fmtResult[t] >= BUFFER_SIZE /\ retval[t] = "void"
  /\ \E t \in Threads :
       Completed(t) /\ fmtResult[t] < 0 /\ retval[t] = "void"

C9_BlocksUntilHandlerReturns ==
  \A t \in Threads :
    /\ [](handler[t] = "running" => pc[t] = "inHandler")
    /\ [](Completed(t) => handler[t] = "returned")
    /\ (handler[t] = "returned" /\ pc[t] = "L17") ~> (pc[t] = "idle")

\* One call has returned after its handler did; the other is still blocked.
C9_Witness ==
  \E t, u \in Threads :
    /\ Completed(t) /\ handler[t] = "returned"
    /\ pc[u] = "inHandler" /\ handler[u] = "running"

====
